---- MODULE Spec2Model ----
(***************************************************************************)
(* Model of the Polymarket fill ingestion and price engine:                *)
(*   src/src/subgraphClient.ts  SubgraphClient (paginated, rate-limit      *)
(*                              retrying fetch; bounded-concurrency batch) *)
(*   src/src/dataProcessor.ts   FillsProcessor (price / amount / side,      *)
(*                              the flat list of a market)                 *)
(*   src/webapp/lib/excelExporter.ts  ExcelExporter (outcome grouping,     *)
(*                              net action, summary rows)                  *)
(*   src/src/server.ts, src/unnamed/part_004, src/unnamed/part_001         *)
(*                              the front ends that run a market           *)
(*                                                                         *)
(* Numbers: raw amounts are naturals (the decimal integer strings of the   *)
(* feed after parseFloat).  A JavaScript number that is the result of a    *)
(* division is kept as an exact reduced fraction [num, den]; the rounded   *)
(* price and amount of a ProcessedFill are kept as integers in units of    *)
(* 1e-6 and 1e-2.  Strings that the code inspects character by character   *)
(* (error messages, outcome labels) are tuples of one-character strings.   *)
(***************************************************************************)
EXTENDS Integers, Sequences, FiniteSets, TLC

(***************************************************************************)
(* Bounds of the model                                                     *)
(***************************************************************************)
MaxTokens == 2          \* longest list of requested token ids
MaxFeedLen == 4         \* longest fill history of a token fetched alone
MaxBatchFeedLen == 1    \* longest fill history of a token fetched in a batch
MaxPageSize == 2        \* largest page size P tried (config.graphqlPageSize)
MaxConcurrent == 2      \* largest concurrency ceiling tried
MaxRateLimitHits == 2   \* the count of rate-limit answers saturates here
MaxFills == 2           \* longest list of raw fills handed to processFills
MaxAmountUnits == 2     \* raw amounts are 0..MaxAmountUnits times AmountStep
MaxCalls == 2           \* processMarketFills calls made on one snapshot
MaxMarketFills == 2     \* longest fill history of a token of a market

DECIMALS == 1000000     \* const DECIMALS = 1_000_000

AmountStep == DECIMALS \div 2   \* raw amounts are multiples of half a token

TokenNames == <<"A", "B", "C", "D">>
TokenIds == {TokenNames[k] : k \in 1..MaxTokens}

Min(a, b) == IF a < b THEN a ELSE b

(***************************************************************************)
(* Errors thrown by a page request: an HTTP status (0: none) and a message *)
(***************************************************************************)
MsgRateLimit == <<"r","a","t","e"," ","l","i","m","i","t">>
MsgRateLimitCaps == <<"A"," ","R","a","t","e"," ","L","i","m","i","t","!">>
MsgTimeout == <<"t","i","m","e","o","u","t">>

Errors ==
  { [status |-> 429, message |-> MsgTimeout],
    [status |-> 500, message |-> MsgRateLimitCaps],
    [status |-> 500, message |-> MsgTimeout] }

NoError == [status |-> 0, message |-> <<>>]

\* String.prototype.toLowerCase on the letters that occur in the messages
lowerChar(c) ==
  CASE c = "A" -> "a"
    [] c = "R" -> "r"
    [] c = "L" -> "l"
    [] OTHER -> c

toLowerCase(s) == [k \in 1..Len(s) |-> lowerChar(s[k])]

\* String.prototype.includes
includes(s, needle) ==
  \E k \in 0..(Len(s) - Len(needle)) :
    \A j \in 1..Len(needle) : s[k + j] = needle[j]

\* String.prototype.indexOf(needle, from), positions counted from 1; 0: none
indexOf(s, needle, from) ==
  LET hits == {k \in from..(Len(s) - Len(needle) + 1) :
                 \A j \in 1..Len(needle) : s[k + j - 1] = needle[j]}
  IN IF hits = {} THEN 0 ELSE CHOOSE k \in hits : \A h \in hits : k <= h

RECURSIVE splitFrom(_, _, _)
splitFrom(s, sep, from) ==
  LET k == indexOf(s, sep, from)
  IN IF k = 0 THEN <<SubSeq(s, from, Len(s))>>
     ELSE <<SubSeq(s, from, k - 1)>> \o splitFrom(s, sep, k + Len(sep))

\* String.prototype.split(sep) for a separator that is not empty
split(s, sep) == splitFrom(s, sep, 1)

RECURSIVE joinFrom(_, _, _)
joinFrom(parts, sep, k) ==
  IF k > Len(parts) THEN <<>>
  ELSE IF k = Len(parts) THEN parts[k]
  ELSE parts[k] \o sep \o joinFrom(parts, sep, k + 1)

\* Array.prototype.join(sep)
join(parts, sep) == joinFrom(parts, sep, 1)

isRateLimitError_statusOnly(error) == error.status = 429

isRateLimitError_any(error) == TRUE

isRateLimitError(error) ==
  \/ error.status = 429
  \/ includes(toLowerCase(error.message), MsgRateLimit)

(***************************************************************************)
(* Numbers and numeric strings                                             *)
(***************************************************************************)
DigitChars == <<"0","1","2","3","4","5","6","7","8","9">>

DigitValue(c) == (CHOOSE d \in 1..10 : DigitChars[d] = c) - 1

RECURSIVE decimal(_)
\* the decimal string of a natural number, as the feed writes its integers
decimal(n) ==
  IF n < 10 THEN <<DigitChars[n + 1]>>
  ELSE Append(decimal(n \div 10), DigitChars[(n % 10) + 1])

RECURSIVE parseDigits(_, _, _)
parseDigits(s, k, acc) ==
  IF k > Len(s) THEN acc
  ELSE parseDigits(s, k + 1, 10 * acc + DigitValue(s[k]))

\* parseFloat of a string of decimal digits
parseFloat(s) == parseDigits(s, 1, 0)

\* parseInt of a string of decimal digits
parseInt(s) == parseDigits(s, 1, 0)

RECURSIVE GCD(_, _)
GCD(a, b) == IF b = 0 THEN a ELSE GCD(b, a % b)

\* the number n / d (n >= 0, d > 0), in lowest terms
Rat(n, d) == [num |-> n \div GCD(n, d), den |-> d \div GCD(n, d)]

\* x / y for numbers x, y with y # 0
DivRat(x, y) == Rat(x.num * y.den, x.den * y.num)

\* Math.round(x * scale) for a number x >= 0: floor(x * scale + 1/2)
RoundScaled(x, scale) == (2 * x.num * scale + x.den) \div (2 * x.den)

\* the value null: no number has denominator 0
null == [num |-> 0, den |-> 0]

\* the sum of a sequence of integers: reduce((a, b) => a + b, 0)
RECURSIVE sumFrom(_, _)
sumFrom(xs, k) == IF k > Len(xs) THEN 0 ELSE xs[k] + sumFrom(xs, k + 1)

sum(xs) == sumFrom(xs, 1)

\* Array.prototype.sort(compareFn): the sort is stable.  compared[i, j] is
\* compareFn(arr[i], arr[j]).  An element is put behind every element
\* already placed that compareFn does not order after it.
sort(arr, compared) ==
  LET insert(sorted, n) ==
        LET before == Cardinality({k \in 1..Len(sorted) :
                                     compared[sorted[k], n] <= 0})
        IN SubSeq(sorted, 1, before) \o <<n>>
             \o SubSeq(sorted, before + 1, Len(sorted))
      placed[n \in 0..Len(arr)] ==
        IF n = 0 THEN <<>> ELSE insert(placed[n - 1], n)
  IN [k \in 1..Len(arr) |-> arr[placed[Len(arr)][k]]]

(***************************************************************************)
(* State                                                                   *)
(***************************************************************************)
VARIABLES
  tokenIds,       \* getMultipleTokenFills: the requested token ids
  maxConcurrent,  \* getMultipleTokenFills: the concurrency ceiling
  pageSize,       \* getTokenFills: config.graphqlPageSize
  feed,           \* upstream: token id -> its fill events, newest first
  batch,          \* getMultipleTokenFills: "idle", "running", "resolved"
  task,           \* per requested token: the limit(...) task and its
                  \* getTokenFills call (pc, skip, allFills, caught, outcome)
  tokenFills,     \* getMultipleTokenFills: the shared results map
  keyOrder,       \* Object.keys(tokenFills): its keys in insertion order
  activeCount,    \* p-limit: tasks running
  queue,          \* p-limit: tasks waiting for a slot
  rateLimitHits,  \* history: rate-limit answers seen so far (saturating)
  targetToken,    \* FillsProcessor: the tokenId argument of the call
  rawFills,       \* FillsProcessor: the raw fills handed to the call
  call,           \* FillsProcessor: the call made and what it returned
  tokenOutcomes,  \* TokenOutcomes: token id -> outcome label
  allProcessed,   \* processMarketFills: the array it builds and returns
  marketCalls,    \* history: what each processMarketFills call returned
  workbook,       \* exportToExcel: the summary rows and the sheets written
  job,            \* the front end's run: its caller, status and error
  fillsCache      \* CacheManager: the fills cache file of the slug, if any

priceVars == <<targetToken, rawFills, call>>

fetchVars ==
  <<tokenIds, maxConcurrent, pageSize, feed, batch, task, tokenFills,
    keyOrder, activeCount, queue, rateLimitHits>>

marketVars ==
  <<tokenOutcomes, allProcessed, marketCalls, workbook, job, fillsCache>>

QUOTE == "0"

(***************************************************************************)
(* Outcome labels: '<question> - <outcome>' (extractTokenIds, clobTokenIds *)
(* format) or the bare outcome (legacy tokens format)                      *)
(***************************************************************************)
Separator == <<" ", "-", " ">>

KeySeparator == <<"|">>

Over == <<"O", "v", "e", "r">>
Under == <<"U", "n", "d", "e", "r">>
Yes == <<"Y", "e", "s">>
No == <<"N", "o">>
Tie == <<"T", "i", "e">>

UNKNOWN == <<"U", "N", "K", "N", "O", "W", "N">>

\* `${marketData.question} - ${outcome}`
Label(question, outcome) == question \o Separator \o outcome

LabelQOver == Label(<<"Q">>, Over)
LabelQUnder == Label(<<"Q">>, Under)
LabelQTie == Label(<<"Q">>, Tie)
LabelRYes == Label(<<"R">>, Yes)
LabelQYes == Label(<<"Q">>, Yes)
LabelNested == Label(Label(<<"Q">>, <<"R">>), Yes)
LabelPiped == Label(<<"Q">>, Over \o KeySeparator \o <<"1">>)

\* the label of the k-th token of a market whose labels do not matter
TokenLabels == <<LabelQOver, LabelQUnder, LabelQTie, LabelRYes>>

\* The k-th newest of the n events of token tok, as FILLS_QUERY selects it:
\* the token is the maker or the taker asset.
OrderFillEvent(tok, n, k) ==
  [ id |-> <<tok, k>>,
    transactionHash |-> <<tok, k>>,
    timestamp |-> decimal(n - k + 1),
    makerAssetId |-> IF k % 2 = 1 THEN tok ELSE QUOTE,
    takerAssetId |-> IF k % 2 = 1 THEN QUOTE ELSE tok,
    makerAmountFilled |-> decimal(AmountStep),
    takerAmountFilled |-> decimal(AmountStep) ]

FeedOfLength(tok, n) == [k \in 1..n |-> OrderFillEvent(tok, n, k)]

\* The upstream's answer to FILLS_QUERY {tokenId, first, skip}
orderFilledEvents(tokenId, first, sk) ==
  SubSeq(feed[tokenId], sk + 1, Min(sk + first, Len(feed[tokenId])))

Pending == [kind |-> "pending", fills |-> <<>>, error |-> NoError]

NewTask(state) ==
  [pc |-> state, skip |-> 0, allFills |-> <<>>, caught |-> NoError,
   outcome |-> Pending]

(***************************************************************************)
(* getTokenFills: one turn of the while (true) loop                        *)
(***************************************************************************)
isLastPage_inclusive(fills, first) == Len(fills) <= first

isLastPage(fills, first) == Len(fills) < first

nextSkip_offByOne(sk, first) == sk + first + 1

nextSkip(sk, first) == sk + first

\* the try block, from the response on
onResponse(t, fills) ==
  IF Len(fills) = 0
    THEN [t EXCEPT !.pc = "settled",
                   !.outcome = [kind |-> "returned", fills |-> t.allFills,
                                error |-> NoError]]
    ELSE LET all == t.allFills \o fills IN
         IF isLastPage(fills, pageSize)
           THEN [t EXCEPT !.pc = "settled", !.allFills = all,
                          !.outcome = [kind |-> "returned", fills |-> all,
                                       error |-> NoError]]
           ELSE [t EXCEPT !.pc = "delay", !.allFills = all,
                          !.skip = nextSkip(t.skip, pageSize)]

onError_advances(t, error) ==
  IF isRateLimitError(error)
    THEN [t EXCEPT !.pc = "cooldown", !.caught = error,
                   !.skip = nextSkip(t.skip, pageSize)]
    ELSE [t EXCEPT !.pc = "settled", !.caught = error,
                   !.outcome = [kind |-> "rejected", fills |-> <<>>,
                                error |-> error]]

\* the catch block
onError(t, error) ==
  IF isRateLimitError(error)
    THEN [t EXCEPT !.pc = "cooldown", !.caught = error]
    ELSE [t EXCEPT !.pc = "settled", !.caught = error,
                   !.outcome = [kind |-> "rejected", fills |-> <<>>,
                                error |-> error]]

(***************************************************************************)
(* getMultipleTokenFills                                                   *)
(***************************************************************************)
pLimit_plusOne(concurrency) == concurrency + 1

\* const limit = pLimit(maxConcurrent): the number of slots of the limiter
pLimit(concurrency) == concurrency

record_skipFailed(tf, tok, outcome) ==
  IF outcome.kind = "returned"
    THEN [k \in DOMAIN tf \cup {tok} |->
            IF k = tok THEN outcome.fills ELSE tf[k]]
    ELSE tf

\* the body of the limited task after getTokenFills settles:
\* tokenFills[tokenId] = fills, or = [] in the catch block
record(tf, tok, outcome) ==
  [k \in DOMAIN tf \cup {tok} |->
     IF k # tok THEN tf[k]
     ELSE IF outcome.kind = "returned" THEN outcome.fills ELSE <<>>]

\* the keys of an object after obj[k] = v: a new key goes last, an existing
\* key keeps its place (token ids are not array indices)
keysAfterSet(keys, k) ==
  IF \E j \in 1..Len(keys) : keys[j] = k THEN keys ELSE Append(keys, k)

allSettled_noAwait(tasks) == TRUE

\* await Promise.all(promises)
allSettled(tasks) == \A i \in DOMAIN tasks : tasks[i].pc = "done"

InFlight(i) == task[i].pc \in {"request", "delay", "cooldown"}

\* tokenIds.map(tokenId => limit(...)): every task is enqueued and the first
\* pLimit(maxConcurrent) of them start, each running getTokenFills up to its
\* first page request.
getMultipleTokenFills ==
  /\ batch = "idle"
  /\ LET n == Len(tokenIds)
         started == Min(n, pLimit(maxConcurrent))
     IN /\ task' = [i \in 1..n |->
                      IF i <= started THEN NewTask("request")
                      ELSE NewTask("queued")]
        /\ queue' = [k \in 1..(n - started) |-> started + k]
        /\ activeCount' = started
  /\ batch' = "running"
  /\ UNCHANGED <<tokenIds, maxConcurrent, pageSize, feed, tokenFills,
                 keyOrder, rateLimitHits, priceVars, marketVars>>

\* Task i's getTokenFills has moved to t.  When it has settled, the rest of
\* the limited task runs in the same turn of the event loop: the result is
\* recorded, the slot is released and p-limit starts the next queued task.
Continue(i, t) ==
  IF t.pc # "settled"
    THEN /\ task' = [task EXCEPT ![i] = t]
         /\ UNCHANGED <<tokenFills, keyOrder, activeCount, queue>>
    ELSE /\ tokenFills' = record(tokenFills, tokenIds[i], t.outcome)
         /\ keyOrder' = keysAfterSet(keyOrder, tokenIds[i])
         /\ IF queue # <<>>
              THEN /\ task' = [task EXCEPT ![i] = [t EXCEPT !.pc = "done"],
                                           ![Head(queue)] = NewTask("request")]
                   /\ queue' = Tail(queue)
                   /\ UNCHANGED activeCount
              ELSE /\ task' = [task EXCEPT ![i] = [t EXCEPT !.pc = "done"]]
                   /\ activeCount' = activeCount - 1
                   /\ UNCHANGED queue

\* the page request of task i is answered with a page
RespondPage(i) ==
  /\ batch = "running"
  /\ task[i].pc = "request"
  /\ Continue(i, onResponse(task[i],
                  orderFilledEvents(tokenIds[i], pageSize, task[i].skip)))
  /\ UNCHANGED <<tokenIds, maxConcurrent, pageSize, feed, batch,
                 rateLimitHits, priceVars, marketVars>>

\* the page request of task i throws
RespondError(i, error) ==
  /\ batch = "running"
  /\ task[i].pc = "request"
  /\ Continue(i, onError(task[i], error))
  /\ rateLimitHits' =
       IF isRateLimitError(error)
         THEN Min(rateLimitHits + 1, MaxRateLimitHits)
         ELSE rateLimitHits
  /\ UNCHANGED <<tokenIds, maxConcurrent, pageSize, feed, batch, priceVars,
                 marketVars>>

\* await this.delay(100) is over: the next page is requested
DelayElapsed(i) ==
  /\ task[i].pc = "delay"
  /\ task' = [task EXCEPT ![i].pc = "request"]
  /\ UNCHANGED <<tokenIds, maxConcurrent, pageSize, feed, batch, tokenFills,
                 keyOrder, activeCount, queue, rateLimitHits, priceVars,
                 marketVars>>

\* await this.delay(60000) is over: continue, the same page is requested
CooldownElapsed(i) ==
  /\ task[i].pc = "cooldown"
  /\ task' = [task EXCEPT ![i].pc = "request", ![i].caught = NoError]
  /\ UNCHANGED <<tokenIds, maxConcurrent, pageSize, feed, batch, tokenFills,
                 keyOrder, activeCount, queue, rateLimitHits, priceVars,
                 marketVars>>

\* Promise.all has every task settled: return tokenFills
Resolve ==
  /\ batch = "running"
  /\ allSettled(task)
  /\ batch' = "resolved"
  /\ UNCHANGED <<tokenIds, maxConcurrent, pageSize, feed, task, tokenFills,
                 keyOrder, activeCount, queue, rateLimitHits, priceVars,
                 marketVars>>

vars == <<fetchVars, priceVars, marketVars>>

TokenIndex(tok) == CHOOSE k \in 1..Len(TokenNames) : TokenNames[k] = tok

NoCall == [op |-> "none"]

\* no workbook has been written
NoWorkbook == [created |-> FALSE]

\* no front end is running
NoJob == [caller |-> "none", status |-> "none"]

\* fs.existsSync(cachePath) is false: no fills cache file
NoCache == [saved |-> FALSE]

\* before the call: a request for the first n tokens, whose feeds hold at
\* most maxLen events each
RequestOf(toks, maxLen) ==
  /\ tokenIds = toks
  /\ pageSize \in 1..MaxPageSize
  /\ \E len \in [TokenIds -> 0..maxLen] :
       /\ \A tok \in TokenIds :
            (\A k \in 1..Len(toks) : toks[k] # tok) => len[tok] = 0
       /\ feed = [tok \in TokenIds |-> FeedOfLength(tok, len[tok])]
  /\ batch = "idle"
  /\ task = <<>>
  /\ tokenFills = <<>>
  /\ keyOrder = <<>>
  /\ activeCount = 0
  /\ queue = <<>>
  /\ rateLimitHits = 0
  /\ targetToken = QUOTE
  /\ rawFills = <<>>
  /\ call = NoCall
  /\ tokenOutcomes = [tok \in {toks[k] : k \in 1..Len(toks)} |->
                        TokenLabels[TokenIndex(tok)]]
  /\ allProcessed = <<>>
  /\ marketCalls = <<>>
  /\ workbook = NoWorkbook

\* the request of a market: its first n tokens
Request(n, maxLen) == RequestOf(SubSeq(TokenNames, 1, n), maxLen)

\* the same, called on its own
Requesting(n, maxLen) ==
  /\ Request(n, maxLen)
  /\ job = NoJob
  /\ fillsCache = NoCache

\* a batch of up to MaxTokens tokens
Init ==
  /\ maxConcurrent \in 1..MaxConcurrent
  /\ \E n \in 0..MaxTokens : Requesting(n, MaxBatchFeedLen)

\* any list of up to MaxTokens token ids, the same id twice included, each
\* history at most one page long, so that a full history fills its page
ListInit ==
  /\ maxConcurrent \in 1..MaxConcurrent
  /\ \E n \in 0..MaxTokens :
       \E toks \in [1..n -> TokenIds] : RequestOf(toks, MaxBatchFeedLen)
  /\ pageSize = MaxBatchFeedLen
  /\ job = NoJob
  /\ fillsCache = NoCache

\* a single token with a longer history
TokenInit ==
  /\ maxConcurrent = 1
  /\ Requesting(1, MaxFeedLen)

(***************************************************************************)
(* FillsProcessor                                                          *)
(***************************************************************************)
calculateFillPrice_swapped(fill, tokId) ==
  LET makerAsset == fill.makerAssetId
      takerAsset == fill.takerAssetId
      makerAmount == parseFloat(fill.makerAmountFilled)
      takerAmount == parseFloat(fill.takerAmountFilled)
  IN IF makerAsset = tokId /\ takerAsset = QUOTE
       THEN IF makerAmount = 0 THEN Rat(0, 1)
            ELSE IF takerAmount = 0 THEN Rat(0, 1)
            ELSE DivRat(Rat(makerAmount, DECIMALS), Rat(takerAmount, DECIMALS))
     ELSE IF takerAsset = tokId /\ makerAsset = QUOTE
       THEN IF takerAmount = 0 THEN Rat(0, 1)
            ELSE IF makerAmount = 0 THEN Rat(0, 1)
            ELSE DivRat(Rat(takerAmount, DECIMALS), Rat(makerAmount, DECIMALS))
     ELSE null

calculateFillPrice_zeroIsNull(fill, tokId) ==
  LET makerAsset == fill.makerAssetId
      takerAsset == fill.takerAssetId
      makerAmount == parseFloat(fill.makerAmountFilled)
      takerAmount == parseFloat(fill.takerAmountFilled)
  IN IF makerAsset = tokId /\ takerAsset = QUOTE
       THEN IF makerAmount = 0 THEN null
            ELSE DivRat(Rat(takerAmount, DECIMALS), Rat(makerAmount, DECIMALS))
     ELSE IF takerAsset = tokId /\ makerAsset = QUOTE
       THEN IF takerAmount = 0 THEN null
            ELSE DivRat(Rat(makerAmount, DECIMALS), Rat(takerAmount, DECIMALS))
     ELSE null

calculateFillPrice_anyQuoteLeg(fill, tokId) ==
  LET makerAsset == fill.makerAssetId
      takerAsset == fill.takerAssetId
      makerAmount == parseFloat(fill.makerAmountFilled)
      takerAmount == parseFloat(fill.takerAmountFilled)
  IN IF takerAsset = QUOTE
       THEN IF makerAmount = 0 THEN Rat(0, 1)
            ELSE DivRat(Rat(takerAmount, DECIMALS), Rat(makerAmount, DECIMALS))
     ELSE IF makerAsset = QUOTE
       THEN IF takerAmount = 0 THEN Rat(0, 1)
            ELSE DivRat(Rat(makerAmount, DECIMALS), Rat(takerAmount, DECIMALS))
     ELSE null

calculateFillPrice(fill, tokId) ==
  LET makerAsset == fill.makerAssetId
      takerAsset == fill.takerAssetId
      makerAmount == parseFloat(fill.makerAmountFilled)
      takerAmount == parseFloat(fill.takerAmountFilled)
  IN IF makerAsset = tokId /\ takerAsset = QUOTE
       THEN IF makerAmount = 0 THEN Rat(0, 1)
            ELSE DivRat(Rat(takerAmount, DECIMALS), Rat(makerAmount, DECIMALS))
     ELSE IF takerAsset = tokId /\ makerAsset = QUOTE
       THEN IF takerAmount = 0 THEN Rat(0, 1)
            ELSE DivRat(Rat(makerAmount, DECIMALS), Rat(takerAmount, DECIMALS))
     ELSE null

calculateFillAmount(fill, tokId) ==
  IF fill.makerAssetId = tokId
    THEN Rat(parseFloat(fill.makerAmountFilled), DECIMALS)
  ELSE IF fill.takerAssetId = tokId
    THEN Rat(parseFloat(fill.takerAmountFilled), DECIMALS)
  ELSE Rat(0, 1)

getTradeSide_inverted(fill, tokId) ==
  IF fill.takerAssetId = tokId THEN "SELL"
  ELSE IF fill.makerAssetId = tokId THEN "BUY"
  ELSE "UNKNOWN"

getTradeSide(fill, tokId) ==
  IF fill.takerAssetId = tokId THEN "BUY"
  ELSE IF fill.makerAssetId = tokId THEN "SELL"
  ELSE "UNKNOWN"

skipFill_falsy(price) == price = null \/ price.num = 0

\* if (price === null) continue
skipFill(price) == price = null

\* formatInTimeZone(new Date(parseInt(timestamp) * 1000), outputTimezone,
\* 'yyyy-MM-dd HH:mm:ss zzz'): the wall clock of America/Los_Angeles, eight
\* hours behind UTC in standard time (the instants of the model lie in the
\* first days of 1970).  The date is kept as its day number, 1970-01-01
\* being day 0.
formatTimestamp(timestamp) ==
  LET local == parseInt(timestamp) - 8 * 3600
      secondOfDay == local % 86400
  IN [ day |-> (local - secondOfDay) \div 86400,
       HH |-> secondOfDay \div 3600,
       mm |-> (secondOfDay % 3600) \div 60,
       ss |-> secondOfDay % 60,
       zzz |-> "PST" ]

\* the ProcessedFill built from a priced fill; price is kept in units of
\* 1e-6 and amount in units of 1e-2 (the roundings of lines 112 and 113).
\* order_hash, maker, taker and fee are left out: no operation of the model
\* reads them.
ProcessedFill(fill, tokId, outcome, price) ==
  [ outcome |-> outcome,
    token_id |-> tokId,
    timestamp_unix |-> fill.timestamp,
    timestamp_pst |-> formatTimestamp(fill.timestamp),
    price |-> RoundScaled(price, 1000000),
    amount |-> RoundScaled(calculateFillAmount(fill, tokId), 100),
    side |-> getTradeSide(fill, tokId),
    transaction_hash |-> fill.transactionHash ]

RECURSIVE processFillsLoop(_, _, _, _, _)
\* the for loop of processFills, from the k-th fill on
processFillsLoop(fs, k, tokId, outcome, processedFills) ==
  IF k > Len(fs) THEN processedFills
  ELSE LET fill == fs[k]
           price == calculateFillPrice(fill, tokId)
       IN IF skipFill(price)
            THEN processFillsLoop(fs, k + 1, tokId, outcome, processedFills)
            ELSE processFillsLoop(fs, k + 1, tokId, outcome,
                   Append(processedFills,
                          ProcessedFill(fill, tokId, outcome, price)))

processFills(fs, tokId, outcome) ==
  processFillsLoop(fs, 1, tokId, outcome, <<>>)

\* tokenOutcomes[tokenId] || 'UNKNOWN'
outcomeOf(outcomes, tokId) ==
  IF tokId \in DOMAIN outcomes /\ outcomes[tokId] # <<>>
    THEN outcomes[tokId]
    ELSE UNKNOWN

compareFills_ascending(a, b) ==
  parseInt(a.timestamp_unix) - parseInt(b.timestamp_unix)

\* (a, b) => parseInt(b.timestamp_unix) - parseInt(a.timestamp_unix)
compareFills(a, b) == parseInt(b.timestamp_unix) - parseInt(a.timestamp_unix)

\* fills.sort(compareFills)
sortFills(fills) ==
  sort(fills, [i, j \in 1..Len(fills) |-> compareFills(fills[i], fills[j])])

newAllProcessed_kept(previous) == previous

\* const allProcessed: ProcessedFill[] = []: every call builds a new array,
\* whatever an earlier call built
newAllProcessed(previous) == <<>>

RECURSIVE processMarketFillsLoop(_, _, _, _, _)
\* the loop over Object.entries(tokenFills), from the k-th entry on
processMarketFillsLoop(tf, keys, outcomes, k, all) ==
  IF k > Len(keys) THEN all
  ELSE LET tokId == keys[k]
           outcome == outcomeOf(outcomes, tokId)
           processed == processFills(tf[tokId], tokId, outcome)
       IN processMarketFillsLoop(tf, keys, outcomes, k + 1, all \o processed)

processMarketFills_unsorted(tf, keys, outcomes, previous) ==
  processMarketFillsLoop(tf, keys, outcomes, 1, newAllProcessed(previous))

\* processMarketFills on the map tf, whose keys are keys in insertion order
processMarketFills(tf, keys, outcomes, previous) ==
  sortFills(processMarketFillsLoop(tf, keys, outcomes, 1,
                                   newAllProcessed(previous)))

(***************************************************************************)
(* ExcelExporter: grouping of the outcomes, net action, summary rows.      *)
(* An object used as an ordered map (fillsByToken, outcomeMap) is the      *)
(* sequence of its entries in insertion order.                             *)
(***************************************************************************)
undefined == <<"undefined">>

\* `${fill.outcome}|${fill.token_id}`
keyOf(fill) == fill.outcome \o KeySeparator \o <<fill.token_id>>

hasKey(map, key) == \E k \in 1..Len(map) : map[k].key = key

\* map[key], for a key the map has
get(map, key) == map[CHOOSE k \in 1..Len(map) : map[k].key = key].value

pushAt_replacing(map, key, x) ==
  IF hasKey(map, key)
    THEN [k \in 1..Len(map) |->
            IF map[k].key = key
              THEN [map[k] EXCEPT !.value = <<x>>]
              ELSE map[k]]
    ELSE Append(map, [key |-> key, value |-> <<x>>])

\* map[key].push(x), after map[key] = [] when the map has no such key
pushAt(map, key, x) ==
  IF hasKey(map, key)
    THEN [k \in 1..Len(map) |->
            IF map[k].key = key
              THEN [map[k] EXCEPT !.value = Append(map[k].value, x)]
              ELSE map[k]]
    ELSE Append(map, [key |-> key, value |-> <<x>>])

\* Object.keys(map)
objectKeys(map) == [k \in 1..Len(map) |-> map[k].key]

RECURSIVE fillsByTokenLoop(_, _, _)
fillsByTokenLoop(processedFills, k, map) ==
  IF k > Len(processedFills) THEN map
  ELSE fillsByTokenLoop(processedFills, k + 1,
                        pushAt(map, keyOf(processedFills[k]),
                               processedFills[k]))

\* the fills grouped by token/outcome key
fillsByToken(processedFills) == fillsByTokenLoop(processedFills, 1, <<>>)

RECURSIVE outcomeMapLoop(_, _, _)
outcomeMapLoop(ks, k, map) ==
  IF k > Len(ks) THEN map
  ELSE outcomeMapLoop(ks, k + 1,
                      pushAt(map, split(ks[k], KeySeparator)[1], ks[k]))

\* outcome -> the keys of fillsByToken that start with it
outcomeMap(byToken) == outcomeMapLoop(objectKeys(byToken), 1, <<>>)

\* parts.slice(0, -1).join(' - ')
baseOf(outcome) ==
  LET parts == split(outcome, Separator)
  IN join(SubSeq(parts, 1, Len(parts) - 1), Separator)

\* parts[parts.length - 1]
suffixOf(outcome) ==
  LET parts == split(outcome, Separator) IN parts[Len(parts)]

isBinaryPair(base1, suffix1, suffix2) ==
  \/ includes(suffix1, Over) /\ includes(suffix2, Under)
  \/ includes(suffix1, Under) /\ includes(suffix2, Over)
  \/ includes(suffix1, Yes) /\ includes(suffix2, No)
  \/ includes(suffix1, No) /\ includes(suffix2, Yes)
  \/ base1 # <<>> /\ suffix1 # <<>> /\ suffix2 # <<>>

RECURSIVE concatFills(_, _, _)
\* for (const key of ks) fills.push(...byToken[key])
concatFills(byToken, ks, k) ==
  IF k > Len(ks) THEN <<>>
  ELSE get(byToken, ks[k]) \o concatFills(byToken, ks, k + 1)

RECURSIVE groupLoop(_, _, _, _, _)
\* the loop over the outcomes, from the i-th on
groupLoop(byToken, byOutcome, i, processed, groups) ==
  LET outcomes == objectKeys(byOutcome) IN
  IF i > Len(outcomes) THEN groups
  ELSE IF outcomes[i] \in processed
    THEN groupLoop(byToken, byOutcome, i + 1, processed, groups)
  ELSE
    LET outcome1 == outcomes[i]
        base1 == baseOf(outcome1)
        suffix1 == suffixOf(outcome1)
        pairs == {j \in (i + 1)..Len(outcomes) :
                    /\ outcomes[j] \notin processed
                    /\ base1 = baseOf(outcomes[j])
                    /\ suffix1 # suffixOf(outcomes[j])
                    /\ isBinaryPair(base1, suffix1, suffixOf(outcomes[j]))}
    IN IF pairs # {}
         THEN LET j == CHOOSE j \in pairs : \A h \in pairs : j <= h
                  outcome2 == outcomes[j]
                  combinedFills ==
                    concatFills(byToken, get(byOutcome, outcome1), 1)
                      \o concatFills(byToken, get(byOutcome, outcome2), 1)
              IN groupLoop(byToken, byOutcome, i + 1,
                           processed \cup {outcome1, outcome2},
                           Append(groups,
                                  [fills |-> sortFills(combinedFills),
                                   isBinary |-> TRUE,
                                   baseName |-> base1]))
         ELSE LET fills ==
                    concatFills(byToken, get(byOutcome, outcome1), 1)
              IN groupLoop(byToken, byOutcome, i + 1,
                           processed \cup {outcome1},
                           Append(groups,
                                  [fills |-> sortFills(fills),
                                   isBinary |-> FALSE,
                                   baseName |-> outcome1]))

detectAndGroupBinaryMarkets(byToken) ==
  groupLoop(byToken, outcomeMap(byToken), 1, {}, <<>>)

RECURSIVE uniqueFrom(_, _, _)
uniqueFrom(xs, k, seen) ==
  IF k > Len(xs) THEN seen
  ELSE IF \E j \in 1..Len(seen) : seen[j] = xs[k]
    THEN uniqueFrom(xs, k + 1, seen)
    ELSE uniqueFrom(xs, k + 1, Append(seen, xs[k]))

\* Array.from(new Set(fills.map(f => f.outcome.split(' - ').pop() || '')))
uniqueOutcomes(fills) ==
  uniqueFrom([k \in 1..Len(fills) |-> suffixOf(fills[k].outcome)], 1, <<>>)

\* oppositesMap[outcomeOnly], the map being built from the unique outcomes
\* when there are exactly two of them and being empty otherwise
oppositesMap(unique, outcomeOnly) ==
  IF Len(unique) # 2 THEN undefined
  ELSE IF outcomeOnly = unique[2] THEN unique[1]
  ELSE IF outcomeOnly = unique[1] THEN unique[2]
  ELSE undefined

calculateNetAction(side, outcome, unique) ==
  LET outcomeOnly == suffixOf(outcome)
      opposite == oppositesMap(unique, outcomeOnly)
  IN IF side = "BUY" THEN outcomeOnly
     ELSE IF opposite # undefined /\ opposite # <<>> THEN opposite
     ELSE outcomeOnly

\* the fills of a group as its sheet lists them: { ...fill, net_action } in
\* a binary group, the fills themselves otherwise
sheetFills(group) ==
  IF group.isBinary
    THEN LET unique == uniqueOutcomes(group.fills)
         IN [k \in 1..Len(group.fills) |->
               [net_action |-> calculateNetAction(group.fills[k].side,
                                                  group.fills[k].outcome,
                                                  unique)]
                 @@ group.fills[k]]
    ELSE group.fills

\* x.toFixed(d) of a number x >= 0 kept in units of 10^-d
toFixed(x) == RoundScaled(x, 1)

Minimum(xs) == CHOOSE x \in {xs[k] : k \in 1..Len(xs)} :
                 \A k \in 1..Len(xs) : x <= xs[k]

Maximum(xs) == CHOOSE x \in {xs[k] : k \in 1..Len(xs)} :
                 \A k \in 1..Len(xs) : x >= xs[k]

totalVolume_raw(volumes) == Rat(sum(volumes), 1)

\* volumes.reduce((a, b) => a + b, 0) / 2
totalVolume(volumes) == Rat(sum(volumes), 2)

currentPrice_oldest(fills) == fills[Len(fills)].price

\* fills[0].price
currentPrice(fills) == fills[1].price

\* (a, b) => b.fills.length - a.fills.length
compareGroups(a, b) == Len(b.fills) - Len(a.fills)

\* binaryGroups.sort(compareGroups)
sortGroups(groups) ==
  sort(groups,
       [i, j \in 1..Len(groups) |-> compareGroups(groups[i], groups[j])])

\* the name a group is listed under
displayName(group) ==
  IF group.isBinary THEN group.baseName
  ELSE LET outcome == group.fills[1].outcome
           parts == split(outcome, Separator)
       IN IF Len(parts) > 1
            THEN Label(join(SubSeq(parts, 1, Len(parts) - 1), Separator),
                       parts[Len(parts)])
            ELSE outcome

actualFillCount_roundedUp(fills) == Rat((Len(fills) + 1) \div 2, 1)

\* const actualFillCount = fills.length / 2
actualFillCount(fills) == Rat(Len(fills), 2)

\* the row of a group in the summary sheet: volumes in units of 1e-2,
\* prices in units of 1e-6
summaryRow(group) ==
  LET fills == group.fills
      volumes == [k \in 1..Len(fills) |-> fills[k].amount]
      prices == [k \in 1..Len(fills) |-> fills[k].price]
      avgVolume == DivRat(totalVolume(volumes), actualFillCount(fills))
      avgPrice == Rat(sum(prices), Len(prices))
  IN [ Market |-> displayName(group),
       TotalFills |-> actualFillCount(fills),
       TotalVolume |-> toFixed(totalVolume(volumes)),
       AvgVolume |-> toFixed(avgVolume),
       MinPrice |-> toFixed(Rat(Minimum(prices), 1)),
       MaxPrice |-> toFixed(Rat(Maximum(prices), 1)),
       AvgPrice |-> toFixed(avgPrice),
       CurrentPrice |-> toFixed(Rat(currentPrice(fills), 1)),
       EarliestFill |-> fills[Len(fills)].timestamp_pst,
       LatestFill |-> fills[1].timestamp_pst ]

\* the rows of the summary sheet, largest group first
createSummarySheet(byToken) ==
  LET binaryGroups == sortGroups(detectAndGroupBinaryMarkets(byToken))
  IN [k \in 1..Len(binaryGroups) |-> summaryRow(binaryGroups[k])]

\* exportToExcel: nothing is written for an empty list; otherwise the
\* summary sheet and one sheet per group
exportToExcel(processedFills) ==
  IF Len(processedFills) = 0 THEN NoWorkbook
  ELSE LET byToken == fillsByToken(processedFills)
           binaryGroups == detectAndGroupBinaryMarkets(byToken)
       IN [ created |-> TRUE,
            summary |-> createSummarySheet(byToken),
            sheets |-> [k \in 1..Len(binaryGroups) |->
                          [ baseName |-> binaryGroups[k].baseName,
                            isBinary |-> binaryGroups[k].isBinary,
                            fills |-> sheetFills(binaryGroups[k]) ]] ]

(***************************************************************************)
(* Inputs of the FillsProcessor operations                                 *)
(***************************************************************************)
PriceTokens == {"A", "B"}

Assets == {QUOTE} \cup PriceTokens

AmountStrings == {decimal(u * AmountStep) : u \in 0..MaxAmountUnits}

OutcomeLabels == {LabelQOver}

\* asset legs and amounts of a fill
Legs(makers, takers) ==
  [makerAssetId : makers, takerAssetId : takers,
   makerAmountFilled : AmountStrings, takerAmountFilled : AmountStrings]

\* what FILLS_QUERY selects for token tok: the token is the maker asset or
\* the taker asset
FeedLegs(tok) ==
  {l \in Legs(Assets, Assets) : l.makerAssetId = tok \/ l.takerAssetId = tok}

\* the k-th newest of n fills of the feed of tok, with legs l
RawFill(tok, n, k, l) ==
  [ id |-> <<tok, k>>,
    transactionHash |-> <<tok, k>>,
    timestamp |-> decimal(n - k + 1),
    makerAssetId |-> l.makerAssetId,
    takerAssetId |-> l.takerAssetId,
    makerAmountFilled |-> l.makerAmountFilled,
    takerAmountFilled |-> l.takerAmountFilled ]

FetchIdle ==
  /\ tokenIds = <<>>
  /\ maxConcurrent = 1
  /\ pageSize = 1
  /\ feed = [tok \in TokenIds |-> <<>>]
  /\ batch = "idle"
  /\ task = <<>>
  /\ tokenFills = <<>>
  /\ keyOrder = <<>>
  /\ activeCount = 0
  /\ queue = <<>>
  /\ rateLimitHits = 0

MarketIdle ==
  /\ tokenOutcomes = <<>>
  /\ allProcessed = <<>>
  /\ marketCalls = <<>>
  /\ workbook = NoWorkbook
  /\ job = NoJob
  /\ fillsCache = NoCache

\* one raw fill with any pair of asset ids, and a target token
PriceInit ==
  /\ FetchIdle
  /\ MarketIdle
  /\ targetToken \in PriceTokens
  /\ \E l \in Legs(Assets, Assets) :
       rawFills = <<RawFill(targetToken, 1, 1, l)>>
  /\ call = NoCall

calculateFillPriceCall ==
  /\ call = NoCall
  /\ call' = [op |-> "calculateFillPrice",
              result |-> calculateFillPrice(rawFills[1], targetToken)]
  /\ UNCHANGED <<fetchVars, marketVars, targetToken, rawFills>>

calculateFillAmountCall ==
  /\ call = NoCall
  /\ call' = [op |-> "calculateFillAmount",
              result |-> calculateFillAmount(rawFills[1], targetToken)]
  /\ UNCHANGED <<fetchVars, marketVars, targetToken, rawFills>>

getTradeSideCall ==
  /\ call = NoCall
  /\ call' = [op |-> "getTradeSide",
              result |-> getTradeSide(rawFills[1], targetToken)]
  /\ UNCHANGED <<fetchVars, marketVars, targetToken, rawFills>>

PriceNext ==
  \/ calculateFillPriceCall
  \/ calculateFillAmountCall
  \/ getTradeSideCall

PriceSpec == PriceInit /\ [][PriceNext]_vars

\* the fills of one token as the feed returns them, and that token (the
\* outcome tokens are interchangeable: the first stands for either)
ProcessInit ==
  /\ FetchIdle
  /\ MarketIdle
  /\ targetToken = TokenNames[1]
  /\ \E n \in 0..MaxFills :
       \E legs \in [1..n -> FeedLegs(targetToken)] :
         rawFills = [k \in 1..n |-> RawFill(targetToken, n, k, legs[k])]
  /\ call = NoCall

processFillsCall(outcome) ==
  /\ call = NoCall
  /\ call' = [op |-> "processFills", outcome |-> outcome,
              result |-> processFills(rawFills, targetToken, outcome)]
  /\ UNCHANGED <<fetchVars, marketVars, targetToken, rawFills>>

ProcessNext == \E outcome \in OutcomeLabels : processFillsCall(outcome)

ProcessSpec == ProcessInit /\ [][ProcessNext]_vars

\* raw amounts of no tokens, of less than half a cent of a token and of a
\* token count with three decimals
SampleAmounts == {decimal(0), decimal(4000), decimal(1234000)}

\* a list of one or two fills with any pair of asset ids, the target token
\* being on a leg or not (processFills takes any list)
AnyFillsInit ==
  /\ FetchIdle
  /\ MarketIdle
  /\ targetToken = TokenNames[1]
  /\ \E n \in 1..2 :
       \E legs \in [1..n -> [makerAssetId : Assets, takerAssetId : Assets,
                             makerAmountFilled : SampleAmounts,
                             takerAmountFilled : SampleAmounts]] :
         rawFills = [k \in 1..n |-> RawFill(targetToken, n, k, legs[k])]
  /\ call = NoCall

AnyFillsSpec == AnyFillsInit /\ [][ProcessNext]_vars

(***************************************************************************)
(* A market: processMarketFills on the fills of its tokens, then the       *)
(* export of the flat list                                                 *)
(***************************************************************************)
\* processor.processMarketFills(tokenFills, tokenOutcomes), once the fills of
\* the tokens are there
processMarketFillsCall ==
  /\ batch = "resolved"
  /\ Len(marketCalls) < MaxCalls
  /\ allProcessed' = processMarketFills(tokenFills, keyOrder, tokenOutcomes,
                                        allProcessed)
  /\ marketCalls' = Append(marketCalls, allProcessed')
  /\ UNCHANGED <<fetchVars, priceVars, tokenOutcomes, workbook, job,
                 fillsCache>>

\* excelExporter.exportToExcel(processedFills, tokenOutcomes, slug)
exportToExcelCall ==
  /\ marketCalls # <<>>
  /\ workbook = NoWorkbook
  /\ workbook' = exportToExcel(allProcessed)
  /\ UNCHANGED <<fetchVars, priceVars, tokenOutcomes, allProcessed,
                 marketCalls, job, fillsCache>>

Next ==
  \/ getMultipleTokenFills
  \/ \E i \in DOMAIN task : RespondPage(i)
  \/ \E i \in DOMAIN task : \E error \in Errors : RespondError(i, error)
  \/ \E i \in DOMAIN task : DelayElapsed(i)
  \/ \E i \in DOMAIN task : CooldownElapsed(i)
  \/ Resolve

Spec == Init /\ [][Next]_vars

TokenSpec == TokenInit /\ [][Next]_vars

ListSpec == ListInit /\ [][Next]_vars

\* MaxTokens tokens fetched concurrently, with histories of MaxMarketFills
\* fills, or one fewer, whose timestamps tie across the tokens
OrderInit ==
  /\ maxConcurrent = MaxConcurrent
  /\ Requesting(MaxTokens, MaxMarketFills)
  /\ \A tok \in TokenIds : Len(feed[tok]) >= MaxMarketFills - 1
  /\ pageSize = MaxPageSize

\* the fetch of a market followed by processMarketFills
OrderNext == Next \/ processMarketFillsCall

OrderSpec == OrderInit /\ [][OrderNext]_vars

(***************************************************************************)
(* The front ends: the job of POST /api/fetch (server.ts), the request of  *)
(* the Next.js route (part_004) and the run of the command line            *)
(* (part_001).  Each resolves the tokens of the slug, gets their fills     *)
(* (from the cache or from getMultipleTokenFills), calls                   *)
(* processMarketFills and exports.  status is "processing" while the run   *)
(* is under way; it ends "completed" (job status 'completed', the file     *)
(* response, 'Done!' and exit code 0)   , "error" (job status 'error', the  *)
(* 500 response, exit code 1) or "returned" (the command line returned     *)
(* without exporting: exit code 0).                                        *)
(***************************************************************************)
Callers == {"server", "route", "cli"}

Job(caller, status, step, error) ==
  [caller |-> caller, status |-> status, step |-> step, error |-> error]

MsgNotFound == "Market or event with slug not found"

MsgNoTokens == "No tokens found for this market"

MsgNoFills == "No fills found for this market"

\* cacheManager.saveFillsData(slug, tokenFills, tokenOutcomes): the file
\* holds the map as it is, its keys in their insertion order (the outcomes
\* are those of the market, total_fills is the sum of the lengths)
saveFillsData(tf, keys) ==
  [ saved |-> TRUE, token_fills |-> tf, keys |-> keys ]

\* the cache files an earlier run of the slug can have left: the fills of
\* each token, or the empty list of a token whose fetch failed
EarlierCaches ==
  { saveFillsData([tok \in {tokenIds[k] : k \in 1..Len(tokenIds)} |->
                     IF tok \in failed THEN <<>> ELSE feed[tok]],
                  tokenIds) :
      failed \in SUBSET {tokenIds[k] : k \in 1..Len(tokenIds)} }

\* a run starts: the slug's market has the first n tokens, or none, each
\* history fitting in one page; there is no cache file, or the file of an
\* earlier run
JobInit ==
  /\ maxConcurrent \in 1..MaxConcurrent
  /\ \E n \in 0..MaxTokens : Request(n, MaxBatchFeedLen)
  /\ pageSize = MaxPageSize
  /\ \E caller \in Callers : job = Job(caller, "processing", "market", "")
  /\ \/ fillsCache = NoCache
     \/ fillsCache \in EarlierCaches /\ maxConcurrent = MaxConcurrent

\* tokenIdArray.length === 0 is checked by the job and by the route only
checksTokens(caller) == caller \in {"server", "route"}

\* gammaClient.getMarketBySlug and extractTokenIds: the lookup throws, or
\* the tokens are there and the run goes on to the fills
getMarketBySlug ==
  /\ job.status = "processing"
  /\ job.step = "market"
  /\ \E found \in BOOLEAN :
       job' = IF ~found
                THEN Job(job.caller, "error", "market", MsgNotFound)
              ELSE IF checksTokens(job.caller) /\ Len(tokenIds) = 0
                THEN Job(job.caller, "error", "market", MsgNoTokens)
              ELSE Job(job.caller, "processing", "fills", "")
  /\ UNCHANGED <<fetchVars, priceVars, tokenOutcomes, allProcessed,
                 marketCalls, workbook, fillsCache>>

\* the steps of subgraphClient.getMultipleTokenFills(tokenIdArray)
fetchFills ==
  /\ job.status = "processing"
  /\ job.step = "fills"
  /\ Next

\* useCache && cacheManager.hasFillsCache(slug): tokenFills =
\* cacheManager.loadFillsData(slug).token_fills, what an earlier run saved
loadFillsData ==
  /\ job.status = "processing"
  /\ job.step = "fills"
  /\ batch = "idle"
  /\ fillsCache.saved
  /\ tokenFills' = fillsCache.token_fills
  /\ keyOrder' = fillsCache.keys
  /\ batch' = "resolved"
  /\ job' = Job(job.caller, "processing", "loaded", "")
  /\ UNCHANGED <<tokenIds, maxConcurrent, pageSize, feed, task, activeCount,
                 queue, rateLimitHits, priceVars, tokenOutcomes,
                 allProcessed, marketCalls, workbook, fillsCache>>

noFills_never(processedFills) == FALSE

\* processedFills.length === 0
noFills(processedFills) == Len(processedFills) = 0

\* what a run does with an empty list: the job and the route throw, the
\* command line logs 'No fills found for this market.' and returns
onNoFills(caller) ==
  IF caller = "cli" THEN Job(caller, "returned", "process", "")
  ELSE Job(caller, "error", "process", MsgNoFills)

\* what follows the fills: saveFillsData when they were fetched, then
\* processMarketFills, the check of its result and the export
processAndExport ==
  /\ job.status = "processing"
  /\ job.step \in {"fills", "loaded"}
  /\ batch = "resolved"
  /\ fillsCache' = IF job.step = "fills"
                     THEN saveFillsData(tokenFills, keyOrder)
                     ELSE fillsCache
  /\ allProcessed' = processMarketFills(tokenFills, keyOrder, tokenOutcomes,
                                        allProcessed)
  /\ marketCalls' = Append(marketCalls, allProcessed')
  /\ IF noFills(allProcessed')
       THEN /\ job' = onNoFills(job.caller)
            /\ UNCHANGED workbook
       ELSE /\ workbook' = exportToExcel(allProcessed')
            /\ job' = Job(job.caller, "completed", "process", "")
  /\ UNCHANGED <<fetchVars, priceVars, tokenOutcomes>>

JobNext ==
  \/ getMarketBySlug
  \/ fetchFills
  \/ loadFillsData
  \/ processAndExport

JobSpec == JobInit /\ [][JobNext]_vars

\* the first run for a slug: no cache file yet
CacheInit ==
  /\ maxConcurrent = MaxConcurrent
  /\ \E n \in 1..MaxTokens : Request(n, MaxBatchFeedLen)
  /\ pageSize = MaxPageSize
  /\ \E caller \in Callers : job = Job(caller, "processing", "market", "")
  /\ fillsCache = NoCache

\* a later run for the same slug, by any front end: the cache file is what
\* the earlier runs left
nextRun ==
  /\ job.status \in {"completed", "error", "returned"}
  /\ \E caller \in Callers : job' = Job(caller, "processing", "market", "")
  /\ batch' = "idle"
  /\ task' = <<>>
  /\ tokenFills' = <<>>
  /\ keyOrder' = <<>>
  /\ activeCount' = 0
  /\ queue' = <<>>
  /\ rateLimitHits' = 0
  /\ allProcessed' = <<>>
  /\ marketCalls' = <<>>
  /\ workbook' = NoWorkbook
  /\ UNCHANGED <<tokenIds, maxConcurrent, pageSize, feed, priceVars,
                 tokenOutcomes, fillsCache>>

CacheNext == JobNext \/ nextRun

CacheSpec == CacheInit /\ [][CacheNext]_vars

(***************************************************************************)
(* The markets handed to processMarketFills and to the exporter            *)
(***************************************************************************)
\* the fill of a market's token tok that is the k-th of its history
MarketFill(tok, k, ts, l) ==
  [ id |-> <<tok, k>>,
    transactionHash |-> <<tok, k>>,
    timestamp |-> decimal(ts),
    makerAssetId |-> l.makerAssetId,
    takerAssetId |-> l.takerAssetId,
    makerAmountFilled |-> l.makerAmountFilled,
    takerAmountFilled |-> l.takerAmountFilled ]

\* a sale of half a token at price 1, a sale of one token at price 1/2 and
\* a trade of the token for another token
HistoryLegs(tok) ==
  { [makerAssetId |-> tok, takerAssetId |-> QUOTE,
     makerAmountFilled |-> decimal(AmountStep),
     takerAmountFilled |-> decimal(AmountStep)],
    [makerAssetId |-> tok, takerAssetId |-> QUOTE,
     makerAmountFilled |-> decimal(2 * AmountStep),
     takerAmountFilled |-> decimal(AmountStep)],
    [makerAssetId |-> tok, takerAssetId |-> TokenNames[3],
     makerAmountFilled |-> decimal(AmountStep),
     takerAmountFilled |-> decimal(AmountStep)] }

\* a sale and a purchase of half a token at price 1
SideLegs(tok) ==
  { [makerAssetId |-> tok, takerAssetId |-> QUOTE,
     makerAmountFilled |-> decimal(AmountStep),
     takerAmountFilled |-> decimal(AmountStep)],
    [makerAssetId |-> QUOTE, takerAssetId |-> tok,
     makerAmountFilled |-> decimal(AmountStep),
     takerAmountFilled |-> decimal(AmountStep)] }

\* the histories of token tok as the feed orders them: newest first, with
\* timestamps 1 and 2, so that fills tie within and across tokens
Histories(tok) ==
  UNION { { [k \in 1..n |-> MarketFill(tok, k, ts[k], legs[k])] :
              ts \in {t \in [1..n -> 1..2] :
                        \A k \in 1..(n - 1) : t[k] >= t[k + 1]},
              legs \in [1..n -> HistoryLegs(tok)] } :
          n \in 0..MaxMarketFills }

MarketLabels ==
  { LabelQOver, LabelQUnder, LabelQTie, LabelRYes, Yes, No, Tie,
    LabelNested, LabelPiped }

\* the fills of a market are there (fetched, or loaded from the cache), in
\* the run running, if any
FetchedFor(toks, running) ==
  /\ tokenIds = toks
  /\ keyOrder = toks
  /\ maxConcurrent = 1
  /\ pageSize = 1
  /\ feed = [tok \in TokenIds |-> <<>>]
  /\ batch = "resolved"
  /\ task = <<>>
  /\ activeCount = 0
  /\ queue = <<>>
  /\ rateLimitHits = 0
  /\ targetToken = QUOTE
  /\ rawFills = <<>>
  /\ call = NoCall
  /\ allProcessed = <<>>
  /\ marketCalls = <<>>
  /\ workbook = NoWorkbook
  /\ job = running
  /\ fillsCache = NoCache

\* a binary market with any two histories
HistoryMarket(running) ==
  /\ FetchedFor(<<TokenNames[1], TokenNames[2]>>, running)
  /\ tokenOutcomes = [tok \in {TokenNames[1], TokenNames[2]} |->
                        TokenLabels[TokenIndex(tok)]]
  /\ \E h1 \in Histories(TokenNames[1]) :
       \E h2 \in Histories(TokenNames[2]) :
         tokenFills = [tok \in {TokenNames[1], TokenNames[2]} |->
                         IF tok = TokenNames[1] THEN h1 ELSE h2]

\* two or three tokens with any labels, one fill each at the same second
LabelMarket(running) ==
  \E n \in 2..3 :
    LET toks == {TokenNames[k] : k \in 1..n} IN
    /\ FetchedFor(SubSeq(TokenNames, 1, n), running)
    /\ tokenOutcomes \in [toks -> MarketLabels]
    /\ \E legs \in [toks -> UNION {SideLegs(tok) : tok \in toks}] :
         /\ \A tok \in toks : legs[tok] \in SideLegs(tok)
         /\ tokenFills = [tok \in toks |->
                            <<MarketFill(tok, 1, 1, legs[tok])>>]

\* either market, no front end running
MarketInit == HistoryMarket(NoJob) \/ LabelMarket(NoJob)

MarketNext == processMarketFillsCall \/ exportToExcelCall

MarketSpec == MarketInit /\ [][MarketNext]_vars

\* the same markets in the job of POST /api/fetch, which has awaited their
\* fills and goes on to process and export them
ExportInit ==
  \/ HistoryMarket(Job("server", "processing", "fills", ""))
  \/ LabelMarket(Job("server", "processing", "fills", ""))

ExportSpec == ExportInit /\ [][processAndExport]_vars

\* the labels of a market with up to four outcomes under one question, of
\* another question and of the legacy format
OutcomeNames ==
  { LabelQOver, LabelQUnder, LabelQTie, LabelQYes, LabelRYes, Yes, No, Tie,
    LabelPiped }

\* three or four tokens with any of these labels, one sale each at the same
\* second
GreedyInit ==
  \E n \in 3..4 :
    LET toks == {TokenNames[k] : k \in 1..n} IN
    /\ FetchedFor(SubSeq(TokenNames, 1, n), NoJob)
    /\ tokenOutcomes \in [toks -> OutcomeNames]
    /\ tokenFills = [tok \in toks |->
                       <<MarketFill(tok, 1, 1,
                                    CHOOSE l \in SideLegs(tok) :
                                      l.makerAssetId = tok)>>]

GreedySpec == GreedyInit /\ [][MarketNext]_vars

\* Scheduling: the event loop runs every ready continuation, timers fire and
\* every page request is answered (with a page or with an error).
TaskStep(i) ==
  /\ i \in DOMAIN task
  /\ \/ RespondPage(i)
     \/ \E error \in Errors : RespondError(i, error)
     \/ DelayElapsed(i)
     \/ CooldownElapsed(i)

Fairness ==
  /\ WF_vars(getMultipleTokenFills)
  /\ WF_vars(Resolve)
  /\ \A i \in 1..MaxTokens : WF_vars(TaskStep(i))

FairSpec == Spec /\ Fairness

FairTokenSpec == TokenSpec /\ Fairness

(***************************************************************************)
(* Claims about the fetch layer                                            *)
(***************************************************************************)
Requested == {tokenIds[i] : i \in 1..Len(tokenIds)}

TaskPc(i) == IF i \in DOMAIN task THEN task[i].pc ELSE "none"

InFlightCount == Cardinality({i \in DOMAIN task : InFlight(i)})

\* A rate-limit signal as the specification describes it: an explicit
\* rate-limit status, or a message holding the words in any letter case.
RateLimitSignal(error) ==
  \/ error.status = 429
  \/ includes(toLowerCase(error.message), MsgRateLimit)

\* C1: a getTokenFills call that returns, returns exactly the events of the
\* token's feed, each once and in feed order, whatever rate-limit failures
\* were interleaved with its page requests.
C1_CompleteHistory ==
  \A i \in DOMAIN task :
    task[i].outcome.kind = "returned" =>
      task[i].outcome.fills = feed[tokenIds[i]]

\* C1 witness: a single fetch returned a feed of more than one page after
\* having been rate limited.
C1_Witness ==
  /\ Len(tokenIds) = 1
  /\ task # <<>>
  /\ task[1].outcome.kind = "returned"
  /\ Len(feed[tokenIds[1]]) > pageSize
  /\ rateLimitHits >= 1

\* C2: never more than maxConcurrent getTokenFills calls are in flight, and a
\* queued task starts only in a step in which a running one settles.
C2_ConcurrencyCeiling ==
  /\ [](InFlightCount <= maxConcurrent)
  /\ [][\A j \in DOMAIN task :
          (j \in DOMAIN task' /\ task[j].pc = "queued"
             /\ task'[j].pc = "request")
            => \E i \in DOMAIN task : InFlight(i) /\ task'[i].pc = "done"]_vars

\* C2 witness: a task that had to queue is running, and the ceiling is
\* reached.
C2_Witness ==
  /\ InFlightCount = maxConcurrent
  /\ \E j \in DOMAIN task : j > maxConcurrent /\ InFlight(j)

\* C3: the batch never rejects; every finished task has left an entry under
\* its token id, the empty sequence when its getTokenFills rejected and the
\* returned sequence otherwise; a resolved batch has an entry per token.
C3_FailureIsolation ==
  /\ batch \in {"idle", "running", "resolved"}
  /\ \A i \in DOMAIN task :
       task[i].pc = "done" =>
         /\ tokenIds[i] \in DOMAIN tokenFills
         /\ tokenFills[tokenIds[i]] =
              IF task[i].outcome.kind = "rejected" THEN <<>>
              ELSE task[i].outcome.fills
  /\ batch = "resolved" => DOMAIN tokenFills = Requested

\* C3 witness: a resolved batch in which one token failed after it had
\* accumulated a page and another returned a non-empty history.
C3_Witness ==
  /\ batch = "resolved"
  /\ \E i \in DOMAIN task :
       task[i].outcome.kind = "rejected" /\ task[i].allFills # <<>>
  /\ \E j \in DOMAIN task :
       task[j].outcome.kind = "returned" /\ task[j].outcome.fills # <<>>

\* C4 as stated: whatever the feed does, the batch eventually resolves with
\* an entry for every requested token.
C4_AlwaysCompletes ==
  <>(batch = "resolved" /\ DOMAIN tokenFills = Requested)

\* C4 amended: a resolved batch has an entry for every requested token, and
\* the batch eventually resolves unless some page request is answered with
\* rate-limit signals for ever.
C4_CompletesUnlessRateLimitedForever ==
  /\ [](batch = "resolved" => DOMAIN tokenFills = Requested)
  /\ (<>[](\A i \in 1..MaxTokens : TaskPc(i) # "cooldown"))
       => <>(batch = "resolved")

\* C4 witness: the batch resolved although it met rate limiting and a token
\* failed.
C4_Witness ==
  /\ batch = "resolved"
  /\ rateLimitHits >= 1
  /\ \E i \in DOMAIN task : task[i].outcome.kind = "rejected"

\* C5: a rate-limited page request is followed by the cool-down and then by
\* a request for the same page, however often that happened before; no
\* getTokenFills call rejects with a rate-limit signal; and a call whose
\* requests are not rate limited for ever terminates.
C5_UnboundedRetry ==
  /\ [][\A i \in DOMAIN task :
          (i \in DOMAIN task' /\ task[i].pc = "cooldown")
            => /\ task'[i].pc \in {"cooldown", "request"}
               /\ task'[i].skip = task[i].skip
               /\ task'[i].allFills = task[i].allFills]_vars
  /\ [](\A i \in DOMAIN task :
          /\ (task[i].caught # NoError /\ RateLimitSignal(task[i].caught))
               => task[i].pc = "cooldown"
          /\ task[i].outcome.kind = "rejected"
               => ~RateLimitSignal(task[i].outcome.error))
  /\ \A i \in 1..MaxTokens :
       (<>[](TaskPc(i) # "cooldown"))
         => [](TaskPc(i) = "request" => <>(TaskPc(i) = "done"))

\* C5 witness: a fetch returned after the rate-limit counter had saturated.
C5_Witness ==
  /\ Len(tokenIds) = 1
  /\ task # <<>>
  /\ rateLimitHits = MaxRateLimitHits
  /\ task[1].outcome.kind = "returned"

\* C6 as stated, 'contains' read literally: an error whose status is not 429
\* and whose message does not contain the characters 'rate limit' is not
\* retried; the call rejects with it.
C6_NotRetried_Literal ==
  \A i \in DOMAIN task :
    (/\ task[i].caught # NoError
     /\ task[i].caught.status # 429
     /\ ~includes(task[i].caught.message, MsgRateLimit))
      => /\ task[i].pc = "done"
         /\ task[i].outcome.kind = "rejected"
         /\ task[i].outcome.error = task[i].caught

\* C6 amended: an error whose status is not 429 and whose message does not
\* contain 'rate limit' in any letter case is not retried; the call rejects
\* with it and hands none of its accumulated pages to the caller.
C6_NotRetried ==
  \A i \in DOMAIN task :
    (/\ task[i].caught # NoError
     /\ task[i].caught.status # 429
     /\ ~includes(toLowerCase(task[i].caught.message), MsgRateLimit))
      => /\ task[i].pc = "done"
         /\ task[i].outcome.kind = "rejected"
         /\ task[i].outcome.error = task[i].caught
         /\ tokenFills[tokenIds[i]] = <<>>

\* C6 witness: a call rejected with a non-rate-limit error while it held
\* accumulated pages.
C6_Witness ==
  \E i \in DOMAIN task :
    /\ task[i].outcome.kind = "rejected"
    /\ task[i].outcome.error.status = 500
    /\ task[i].allFills # <<>>

(***************************************************************************)
(* Claims about the price engine                                           *)
(***************************************************************************)
MakerAmount(fill) == parseFloat(fill.makerAmountFilled)

TakerAmount(fill) == parseFloat(fill.takerAmountFilled)

\* the token is sold for the quote currency
SellsToken(fill, tok) == fill.makerAssetId = tok /\ fill.takerAssetId = QUOTE

\* the token is bought with the quote currency
BuysToken(fill, tok) == fill.takerAssetId = tok /\ fill.makerAssetId = QUOTE

\* C7: for a fill with makerAssetId = token, takerAssetId = '0' and
\* makerAmountFilled > 0, calculateFillPrice returns a number p with
\* p * (makerAmount / 1e6) = takerAmount / 1e6, and getTradeSide returns SELL.
C7_MakerSellsPrice ==
  (SellsToken(rawFills[1], targetToken) /\ MakerAmount(rawFills[1]) > 0) =>
    /\ call.op = "calculateFillPrice" =>
         /\ call.result.den > 0
         /\ call.result.num * MakerAmount(rawFills[1])
              = call.result.den * TakerAmount(rawFills[1])
    /\ call.op = "getTradeSide" => call.result = "SELL"

\* C7 witness: the price of such a fill, with amounts that differ, was
\* computed.
C7_Witness ==
  /\ call.op = "calculateFillPrice"
  /\ SellsToken(rawFills[1], targetToken)
  /\ MakerAmount(rawFills[1]) > TakerAmount(rawFills[1])
  /\ TakerAmount(rawFills[1]) > 0

\* C8: for a fill with takerAssetId = token, makerAssetId = '0' and
\* takerAmountFilled > 0, calculateFillPrice returns a number p with
\* p * (takerAmount / 1e6) = makerAmount / 1e6, and getTradeSide returns BUY.
C8_TakerBuysPrice ==
  (BuysToken(rawFills[1], targetToken) /\ TakerAmount(rawFills[1]) > 0) =>
    /\ call.op = "calculateFillPrice" =>
         /\ call.result.den > 0
         /\ call.result.num * TakerAmount(rawFills[1])
              = call.result.den * MakerAmount(rawFills[1])
    /\ call.op = "getTradeSide" => call.result = "BUY"

\* C8 witness: the side of such a fill was computed.
C8_Witness ==
  /\ call.op = "getTradeSide"
  /\ BuysToken(rawFills[1], targetToken)
  /\ TakerAmount(rawFills[1]) > MakerAmount(rawFills[1])
  /\ MakerAmount(rawFills[1]) > 0

TokenForToken(fill) == fill.makerAssetId # QUOTE /\ fill.takerAssetId # QUOTE

HashesOf(seq, field) == [k \in 1..Len(seq) |-> seq[k][field]]

\* C9: processFills emits one ProcessedFill for each input fill that has a
\* quote leg, in input order and nothing else: the output is shorter than
\* the input by exactly the number of token-for-token fills.
C9_DropsTokenForToken ==
  call.op = "processFills" =>
    /\ Len(call.result) =
         Len(rawFills)
           - Cardinality({k \in 1..Len(rawFills) : TokenForToken(rawFills[k])})
    /\ HashesOf(call.result, "transaction_hash") =
         HashesOf(SelectSeq(rawFills, LAMBDA f : ~TokenForToken(f)),
                  "transactionHash")

\* C9 witness: processFills ran on a list holding a token-for-token fill
\* and a fill with a quote leg.
C9_Witness ==
  /\ call.op = "processFills"
  /\ \E k \in 1..Len(rawFills) : TokenForToken(rawFills[k])
  /\ \E k \in 1..Len(rawFills) : ~TokenForToken(rawFills[k])

ZeroAmount(fill, tok) ==
  \/ SellsToken(fill, tok) /\ MakerAmount(fill) = 0
  \/ BuysToken(fill, tok) /\ TakerAmount(fill) = 0

\* C10: a fill of the token against the quote currency whose token amount
\* is 0 appears in the output of processFills, with price 0.
C10_ZeroAmountPriced ==
  call.op = "processFills" =>
    \A k \in 1..Len(rawFills) :
      ZeroAmount(rawFills[k], targetToken) =>
        \E j \in 1..Len(call.result) :
          /\ call.result[j].transaction_hash = rawFills[k].transactionHash
          /\ call.result[j].price = 0

\* C10 witness: processFills ran on a list with a zero-amount sale whose
\* quote amount is not 0 and a zero-amount purchase.
C10_Witness ==
  /\ call.op = "processFills"
  /\ \E k \in 1..Len(rawFills) :
       /\ SellsToken(rawFills[k], targetToken)
       /\ MakerAmount(rawFills[k]) = 0
       /\ TakerAmount(rawFills[k]) > 0
  /\ \E k \in 1..Len(rawFills) :
       BuysToken(rawFills[k], targetToken) /\ TakerAmount(rawFills[k]) = 0

\* the amount of the token and of the quote currency in a fill that trades
\* the token against the quote currency
TokenAmount(fill, tok) ==
  IF fill.makerAssetId = tok THEN MakerAmount(fill) ELSE TakerAmount(fill)

QuoteAmount(fill, tok) ==
  IF fill.makerAssetId = tok THEN TakerAmount(fill) ELSE MakerAmount(fill)

TimeOf(fill) == parseInt(fill.timestamp_unix)

\* the place of x in the sequence seq
IndexIn(seq, x) == CHOOSE k \in 1..Len(seq) : seq[k] = x

\* the place of a processed fill's raw fill in the list of its token
PlaceInToken(fill) ==
  CHOOSE k \in 1..Len(tokenFills[fill.token_id]) :
    tokenFills[fill.token_id][k].transactionHash = fill.transaction_hash

\* fill a comes before fill b in the concatenation of the per-token lists
\* taken in the insertion order of the map's keys
ConcatBefore(a, b) ==
  \/ IndexIn(keyOrder, a.token_id) < IndexIn(keyOrder, b.token_id)
  \/ /\ a.token_id = b.token_id
     /\ PlaceInToken(a) < PlaceInToken(b)

\* C12: processMarketFills is pure: a call leaves the fills map and the
\* outcome map as they were, and a further call on the same inputs returns
\* the list the call before it returned.
C12_Pure ==
  [][marketCalls' # marketCalls =>
       /\ tokenFills' = tokenFills
       /\ keyOrder' = keyOrder
       /\ tokenOutcomes' = tokenOutcomes
       /\ marketCalls # <<>> =>
            marketCalls'[Len(marketCalls')] = marketCalls[Len(marketCalls)]
    ]_vars

\* C12 witness: processMarketFills ran twice on a map whose second token
\* holds the newest fill, so the call had fills to collect and to reorder.
C12_Witness ==
  /\ Len(marketCalls) = 2
  /\ Len(marketCalls[2]) >= 2
  /\ marketCalls[2][1].token_id = TokenNames[2]
  /\ \E k \in 2..Len(marketCalls[2]) :
       marketCalls[2][k].token_id = TokenNames[1]

\* C13: the list processMarketFills returns is in non-increasing order of
\* timestamp_unix read as an integer, and fills with equal timestamps stand
\* in the order of the concatenation of the per-token lists.
C13_SortedDescendingStable ==
  \A c \in 1..Len(marketCalls) :
    \A i, j \in 1..Len(marketCalls[c]) :
      i < j =>
        /\ TimeOf(marketCalls[c][i]) >= TimeOf(marketCalls[c][j])
        /\ TimeOf(marketCalls[c][i]) = TimeOf(marketCalls[c][j]) =>
             ConcatBefore(marketCalls[c][i], marketCalls[c][j])

\* C13 witness: a returned list that starts with a fill of the second token,
\* newer than a fill of the first, and holds equal timestamps both within a
\* token and across the two tokens.
C13_Witness ==
  /\ marketCalls # <<>>
  /\ LET r == marketCalls[1] IN
       /\ Len(r) >= 3
       /\ r[1].token_id = TokenNames[2]
       /\ \E j \in 2..Len(r) :
            r[j].token_id = TokenNames[1] /\ TimeOf(r[j]) < TimeOf(r[1])
       /\ \E i, j \in 1..Len(r) :
            /\ i < j
            /\ TimeOf(r[i]) = TimeOf(r[j])
            /\ r[i].token_id = r[j].token_id
       /\ \E i, j \in 1..Len(r) :
            /\ i < j
            /\ TimeOf(r[i]) = TimeOf(r[j])
            /\ r[i].token_id # r[j].token_id

\* the orders in which the keys of the fills map can have been inserted
KeyOrders ==
  { [k \in 1..Len(keyOrder) |-> keyOrder[p[k]]] :
      p \in { q \in [1..Len(keyOrder) -> 1..Len(keyOrder)] :
                \A a, b \in 1..Len(keyOrder) : q[a] = q[b] => a = b } }

\* two lists hold the same fills and differ at most in the order of fills
\* with equal timestamps
SameUpToTies(x, y) ==
  /\ Len(x) = Len(y)
  /\ \A k \in 1..Len(x) : TimeOf(x[k]) = TimeOf(y[k])
  /\ \A k \in 1..Len(x) :
       \E h \in 1..Len(y) : y[h] = x[k] /\ TimeOf(y[h]) = TimeOf(x[k])
  /\ \A h \in 1..Len(y) : \E k \in 1..Len(x) : x[k] = y[h]

\* C14: the order in which the concurrent token tasks complete reaches the
\* output only through the order of fills with equal timestamps: with the
\* same per-token fetch results, the list of any other completion order holds
\* the same fills and the same sequence of timestamps (stated of the list
\* the latest call returned, in every state a call has produced).
C14_CompletionOrderOnlyTies ==
  marketCalls # <<>> =>
    \A keys \in KeyOrders :
      SameUpToTies(marketCalls[Len(marketCalls)],
                   processMarketFills(tokenFills, keys, tokenOutcomes, <<>>))

\* C14 witness: the second token completed before the first, the list holds
\* fills of different timestamps, and it differs from the list of the run in
\* which the tokens complete in request order.
C14_Witness ==
  /\ marketCalls # <<>>
  /\ keyOrder # tokenIds
  /\ \E i, j \in 1..Len(marketCalls[1]) :
       TimeOf(marketCalls[1][i]) # TimeOf(marketCalls[1][j])
  /\ marketCalls[1]
       # processMarketFills(tokenFills, tokenIds, tokenOutcomes, <<>>)

\* the outcome labels that have fills in the list handed to the exporter
FillLabels == {allProcessed[k].outcome : k \in 1..Len(allProcessed)}

\* the fills of label l in that list, by transaction hash
FillsOfLabel(l) ==
  {allProcessed[k].transaction_hash :
     k \in {h \in 1..Len(allProcessed) : allProcessed[h].outcome = l}}

\* the fills of a group, by transaction hash
GroupFills(group) ==
  {group.fills[k].transaction_hash : k \in 1..Len(group.fills)}

\* the outcome labels of the fills of a group
GroupLabels(group) ==
  {group.fills[k].outcome : k \in 1..Len(group.fills)}

\* the pairs of labels that are the only two of their base name and have
\* different, non-empty suffixes
LonePairs ==
  {pair \in FillLabels \X FillLabels :
     /\ pair[1] # pair[2]
     /\ baseOf(pair[1]) = baseOf(pair[2])
     /\ suffixOf(pair[1]) # suffixOf(pair[2])
     /\ suffixOf(pair[1]) # <<>>
     /\ suffixOf(pair[2]) # <<>>
     /\ \A l \in FillLabels \ {pair[1], pair[2]} :
          baseOf(l) # baseOf(pair[1])}

\* C15 as stated: when exactly two outcome labels share a base name and have
\* different, non-empty suffixes, the groups hold exactly one group with
\* fills of theirs; it is binary, its baseName is the shared base and its
\* fills are all the fills of the two labels.
C15_Pairing ==
  workbook.created =>
    \A pair \in LonePairs :
      LET both == FillsOfLabel(pair[1]) \cup FillsOfLabel(pair[2])
          theirs == {k \in 1..Len(workbook.sheets) :
                       GroupFills(workbook.sheets[k]) \cap both # {}}
      IN /\ Cardinality(theirs) = 1
         /\ \A k \in theirs :
              /\ workbook.sheets[k].isBinary
              /\ workbook.sheets[k].baseName = baseOf(pair[1])
              /\ GroupFills(workbook.sheets[k]) = both
              /\ Len(workbook.sheets[k].fills) = Cardinality(both)

\* C16 as stated: every binary group holds fills of exactly two distinct
\* outcome labels, and the base name of both is the group's baseName.
C16_BinaryGroupTwoLabels ==
  workbook.created =>
    \A k \in 1..Len(workbook.sheets) :
      workbook.sheets[k].isBinary =>
        /\ Cardinality(GroupLabels(workbook.sheets[k])) = 2
        /\ \A l \in GroupLabels(workbook.sheets[k]) :
             baseOf(l) = workbook.sheets[k].baseName

\* C17 as stated: in a binary group the net_action of a BUY fill is the
\* suffix of its own outcome and the net_action of a SELL fill is the suffix
\* of the other outcome of the group; the fills of a non-binary group have
\* no net_action.
C17_NetAction ==
  workbook.created =>
    \A k \in 1..Len(workbook.sheets) :
      LET group == workbook.sheets[k] IN
      \A h \in 1..Len(group.fills) :
        LET fill == group.fills[h]
            others == GroupLabels(group) \ {fill.outcome}
        IN IF group.isBinary
             THEN /\ "net_action" \in DOMAIN fill
                  /\ fill.side = "BUY" =>
                       fill.net_action = suffixOf(fill.outcome)
                  /\ fill.side = "SELL" =>
                       /\ others # {}
                       /\ \A l \in others : fill.net_action = suffixOf(l)
             ELSE "net_action" \notin DOMAIN fill

\* the groups in the order of their rows in the summary sheet
SummaryGroups == sortGroups(workbook.sheets)

\* the raw sum of the amounts of a group's fills (units of 1e-2)
RawVolume(group) ==
  sum([k \in 1..Len(group.fills) |-> group.fills[k].amount])

\* the prices of a group's fills (units of 1e-6)
GroupPrices(group) == {group.fills[k].price : k \in 1..Len(group.fills)}

\* the count, total volume and price columns of the row of a group: count
\* and total volume halved, the prices taken over all fills as they are
HalvedTotalsPlainPrices(row, group) ==
  LET n == Len(group.fills) IN
  /\ row.TotalFills = Rat(n, 2)
  /\ row.TotalVolume = RoundScaled(Rat(RawVolume(group), 2), 1)
  /\ row.MinPrice \in GroupPrices(group)
  /\ \A p \in GroupPrices(group) : row.MinPrice <= p
  /\ row.MaxPrice \in GroupPrices(group)
  /\ \A p \in GroupPrices(group) : row.MaxPrice >= p
  /\ row.AvgPrice
       = RoundScaled(Rat(sum([k \in 1..n |-> group.fills[k].price]), n), 1)

\* C18 as stated: in every summary row the fill count is the raw number of
\* fills / 2, the total volume the raw sum of amounts / 2 and the average
\* volume the raw average amount per fill / 2; min, max and average price
\* are taken over all fills without a division by 2.
C18_AverageVolumeHalved ==
  workbook.created =>
    /\ Len(workbook.summary) = Len(SummaryGroups)
    /\ \A k \in 1..Len(workbook.summary) :
         /\ HalvedTotalsPlainPrices(workbook.summary[k], SummaryGroups[k])
         /\ workbook.summary[k].AvgVolume
              = RoundScaled(Rat(RawVolume(SummaryGroups[k]),
                                2 * Len(SummaryGroups[k].fills)), 1)

\* C18 amended: in every summary row the fill count is the raw number of
\* fills / 2 and the total volume the raw sum of amounts / 2; the average
\* volume is that total divided by that count, which is the raw average
\* amount per fill, not half of it; min, max and average price are taken
\* over all fills without a division by 2.
C18_AverageVolumeIsRawAverage ==
  workbook.created =>
    /\ Len(workbook.summary) = Len(SummaryGroups)
    /\ \A k \in 1..Len(workbook.summary) :
         /\ HalvedTotalsPlainPrices(workbook.summary[k], SummaryGroups[k])
         /\ workbook.summary[k].AvgVolume
              = RoundScaled(Rat(RawVolume(SummaryGroups[k]),
                                Len(SummaryGroups[k].fills)), 1)

\* C18 witness: a workbook whose summary has a row for a group of three or
\* more fills with a positive volume and two different prices.
C18_Witness ==
  /\ workbook.created
  /\ \E k \in 1..Len(workbook.summary) :
       /\ Len(SummaryGroups[k].fills) >= 3
       /\ workbook.summary[k].TotalVolume > 0
       /\ workbook.summary[k].AvgVolume > 0
       /\ workbook.summary[k].MinPrice < workbook.summary[k].MaxPrice

\* fill f is among the newest / the oldest of the fills of a group
Newest(f, group) ==
  \A k \in 1..Len(group.fills) : TimeOf(f) >= TimeOf(group.fills[k])

Oldest(f, group) ==
  \A k \in 1..Len(group.fills) : TimeOf(f) <= TimeOf(group.fills[k])

\* C19: in every summary row the current price is the price of a fill whose
\* timestamp is maximal in the group and Latest Fill is the timestamp of
\* that fill; Earliest Fill is the timestamp of a fill whose timestamp is
\* minimal in the group.
C19_CurrentPriceLatestEarliest ==
  workbook.created =>
    /\ Len(workbook.summary) = Len(SummaryGroups)
    /\ \A k \in 1..Len(workbook.summary) :
         LET row == workbook.summary[k]
             group == SummaryGroups[k]
         IN /\ \E h \in 1..Len(group.fills) :
                 /\ Newest(group.fills[h], group)
                 /\ row.CurrentPrice = group.fills[h].price
                 /\ row.LatestFill = group.fills[h].timestamp_pst
            /\ \E h \in 1..Len(group.fills) :
                 /\ Oldest(group.fills[h], group)
                 /\ row.EarliestFill = group.fills[h].timestamp_pst

\* C19 witness: a row of a group that merges the fills of two tokens, whose
\* newest and oldest fills differ in timestamp and in price.
C19_Witness ==
  /\ workbook.created
  /\ \E k \in 1..Len(workbook.summary) :
       LET group == SummaryGroups[k] IN
       /\ group.isBinary
       /\ Len(group.fills) >= 3
       /\ workbook.summary[k].EarliestFill # workbook.summary[k].LatestFill
       /\ \E h \in 1..Len(group.fills) :
            /\ Oldest(group.fills[h], group)
            /\ group.fills[h].price # workbook.summary[k].CurrentPrice

\* the run is over
Finished == job.status \in {"completed", "error", "returned"}

\* the lookup gave no token for the slug: the market was not found, or it
\* has no token
NoTokenResolved ==
  \/ job.status = "error" /\ job.error = MsgNotFound
  \/ job.step # "market" /\ Len(tokenIds) = 0
  \/ job.status = "error" /\ job.error = MsgNoTokens

\* processMarketFills returned an empty list
ZeroFills == marketCalls # <<>> /\ marketCalls[Len(marketCalls)] = <<>>

\* C20 as stated: when no token is resolved for the slug or
\* processMarketFills yields zero fills, the run ends in an explicit failure
\* (status 'error'), no export is generated and the run never is
\* 'completed'.
C20_FailureSurfaced ==
  (NoTokenResolved \/ ZeroFills) =>
    /\ job.status # "completed"
    /\ workbook = NoWorkbook
    /\ Finished => job.status = "error"

\* C20 amended: when no token is resolved for the slug or processMarketFills
\* yields zero fills, no export is generated and the run never is
\* 'completed'; the job of POST /api/fetch and the request of the route end
\* in an explicit failure (status 'error'), and so does the command line
\* when the market lookup throws; the command line does not check for an
\* empty token list and, on zero fills, returns normally after a message.
C20_FailureSurfacedByJobAndRoute ==
  (NoTokenResolved \/ ZeroFills) =>
    /\ job.status # "completed"
    /\ workbook = NoWorkbook
    /\ Finished =>
         IF job.caller = "cli" /\ job.error # MsgNotFound
           THEN job.status = "returned" /\ ZeroFills
           ELSE job.status = "error"

\* C20 witness: the job of POST /api/fetch ended in 'error' with 'No fills
\* found' for a market whose tokens have fills upstream, every token's
\* fetch having failed.
C20_Witness ==
  /\ job.caller = "server"
  /\ job.status = "error"
  /\ job.error = MsgNoFills
  /\ ZeroFills
  /\ Len(tokenIds) >= 1
  /\ \E k \in 1..Len(tokenIds) : feed[tokenIds[k]] # <<>>
  /\ \E i \in DOMAIN task : task[i].pc = "done"

\* task i's page request is answered with a page in this step
PageAnswered(i) ==
  /\ i \in DOMAIN task
  /\ task[i].pc = "request"
  /\ task'[i].pc \in {"delay", "done"}
  /\ task'[i].outcome.kind # "rejected"

\* C21: the page requests of getTokenFills start at skip 0; an answered
\* request appends its page, of at most P events, behind the fills so far;
\* the offset advances, by P, exactly when the page held P events, and then
\* the next page is requested; after a page of fewer than P events, empty
\* or not, nothing more is requested.  No other step moves the offset.
C21_PaginationProtocol ==
  [][\A i \in DOMAIN task' :
       IF i \notin DOMAIN task
         THEN task'[i].skip = 0 /\ task'[i].allFills = <<>>
       ELSE IF PageAnswered(i)
         THEN LET added == Len(task'[i].allFills) - Len(task[i].allFills)
              IN /\ added \in 0..pageSize
                 /\ SubSeq(task'[i].allFills, 1, Len(task[i].allFills))
                      = task[i].allFills
                 /\ added = pageSize =>
                      /\ task'[i].skip = task[i].skip + pageSize
                      /\ task'[i].pc = "delay"
                 /\ added < pageSize =>
                      /\ task'[i].skip = task[i].skip
                      /\ task'[i].pc = "done"
                      /\ task'[i].outcome.fills = task'[i].allFills
       ELSE /\ task'[i].skip = task[i].skip
            /\ task'[i].allFills = task[i].allFills
            /\ task[i].pc = "done" => task'[i].pc = "done"
    ]_vars

\* C21 witness: a fetch returned after a full page and a short page that
\* was not empty, the offset having advanced once per full page.
C21_Witness ==
  \E i \in DOMAIN task :
    /\ task[i].pc = "done"
    /\ task[i].outcome.kind = "returned"
    /\ task[i].skip >= pageSize
    /\ Len(task[i].allFills) > task[i].skip
    /\ pageSize > 1

\* C22: a rate-limit signal changes nothing but time: from the rate-limited
\* request to the end of the cool-down the skip offset and the accumulated
\* fills of the task stay as they were, the token ids and the page size do
\* too, and the cool-down ends in a request, which is therefore for the same
\* (tokenId, first, skip).
C22_RateLimitFrame ==
  [][\A i \in DOMAIN task :
       (\/ task[i].pc = "request" /\ task'[i].pc = "cooldown"
        \/ task[i].pc = "cooldown")
         => /\ task'[i].skip = task[i].skip
            /\ task'[i].allFills = task[i].allFills
            /\ tokenIds' = tokenIds
            /\ pageSize' = pageSize
            /\ task'[i].pc \in {"cooldown", "request"}
            /\ task[i].pc = "request" => RateLimitSignal(task'[i].caught)
    ]_vars

\* C22 witness: a page request past the first page is in its cool-down.
C22_Witness ==
  \E i \in DOMAIN task :
    /\ task[i].pc = "cooldown"
    /\ task[i].skip > 0
    /\ task[i].allFills # <<>>

\* the limited task of the i-th listed token writes its key in this step
TaskWrites(i) == task[i].pc # "done" /\ task'[i].pc = "done"

\* the write of task i is the first write of its token's key, and it
\* leaves the other keys alone
FirstWriteOfOwnKey(i) ==
  /\ tokenIds[i] \notin DOMAIN tokenFills
  /\ DOMAIN tokenFills' = DOMAIN tokenFills \cup {tokenIds[i]}
  /\ \A k \in DOMAIN tokenFills : tokenFills'[k] = tokenFills[k]

\* the map changes only in a step in which a task writes
OnlyTasksWrite ==
  tokenFills' # tokenFills =>
    \E i \in DOMAIN task : i \in DOMAIN task' /\ TaskWrites(i)

\* the requested token ids are distinct
DistinctTokenIds ==
  \A i, j \in 1..Len(tokenIds) : tokenIds[i] = tokenIds[j] => i = j

LabelsInOrder ==
  uniqueFrom([k \in 1..Len(allProcessed) |-> allProcessed[k].outcome],
             1, <<>>)

\* the labels of base name base, in the order of their first appearance
LabelsOfBase(base) ==
  LET RECURSIVE pick(_)
      pick(k) ==
        IF k > Len(LabelsInOrder) THEN <<>>
        ELSE IF baseOf(LabelsInOrder[k]) = base
          THEN <<LabelsInOrder[k]>> \o pick(k + 1)
          ELSE pick(k + 1)
  IN pick(1)

\* the groups that hold fills of the labels in ls
GroupsOf(ls) ==
  {k \in 1..Len(workbook.sheets) :
     GroupLabels(workbook.sheets[k]) \cap ls # {}}

\* C24 as stated: when three or more distinct outcome labels share one base
\* name (the question part before the last separator), they are paired in the order of their first appearance, first with
\* second, third with fourth: each pair is one binary group named by the
\* base and holding the fills of both, and a label left over is a group of
\* its own, not binary, named by the full label.
C24_GreedyPairing ==
  workbook.created =>
    \A base \in {baseOf(l) : l \in FillLabels} :
      LET ls == LabelsOfBase(base) IN
      base # <<>> /\ Len(ls) >= 3 =>
        \A k \in 1..Len(ls) :
          IF k % 2 = 1 /\ k < Len(ls)
            THEN LET pair == {ls[k], ls[k + 1]} IN
                 /\ Cardinality(GroupsOf(pair)) = 1
                 /\ \A g \in GroupsOf(pair) :
                      /\ workbook.sheets[g].isBinary
                      /\ workbook.sheets[g].baseName = base
                      /\ GroupLabels(workbook.sheets[g]) = pair
                      /\ GroupFills(workbook.sheets[g])
                           = FillsOfLabel(ls[k]) \cup FillsOfLabel(ls[k + 1])
          ELSE IF k % 2 = 1
            THEN /\ Cardinality(GroupsOf({ls[k]})) = 1
                 /\ \A g \in GroupsOf({ls[k]}) :
                      /\ ~workbook.sheets[g].isBinary
                      /\ workbook.sheets[g].baseName = ls[k]
                      /\ GroupLabels(workbook.sheets[g]) = {ls[k]}
                      /\ GroupFills(workbook.sheets[g]) = FillsOfLabel(ls[k])
          ELSE TRUE

\* C25: in every group that detectAndGroupBinaryMarkets returns, binary or
\* not, the fills stand in non-increasing order of timestamp_unix.
C25_GroupFillsDescending ==
  workbook.created =>
    \A g \in 1..Len(workbook.sheets) :
      \A i, j \in 1..Len(workbook.sheets[g].fills) :
        i < j => TimeOf(workbook.sheets[g].fills[i])
                   >= TimeOf(workbook.sheets[g].fills[j])

\* C25 witness: a binary group that starts with a fill of the second token,
\* newer than a fill of the first token further down, so that the fills of
\* the two labels put one after the other were not in order.
C25_Witness ==
  /\ workbook.created
  /\ \E g \in 1..Len(workbook.sheets) :
       LET fills == workbook.sheets[g].fills IN
       /\ workbook.sheets[g].isBinary
       /\ Len(fills) >= 3
       /\ fills[1].token_id = TokenNames[2]
       /\ \E j \in 2..Len(fills) :
            /\ fills[j].token_id = TokenNames[1]
            /\ TimeOf(fills[j]) < TimeOf(fills[1])

\* the raw fill a processed fill was made from
RawOf(out) ==
  rawFills[CHOOSE k \in 1..Len(rawFills) :
             rawFills[k].transactionHash = out.transaction_hash]

PlacesOf(fill) ==
  {p \in UNION {{<<g, i>> : i \in 1..Len(workbook.sheets[g].fills)} :
                  g \in 1..Len(workbook.sheets)} :
     LET held == workbook.sheets[p[1]].fills[p[2]] IN
     /\ held.transaction_hash = fill.transaction_hash
     /\ held.token_id = fill.token_id
     /\ held.outcome = fill.outcome}

\* C27: grouping is a partition: each outcome label has fills in exactly one
\* group, each processed fill stands at exactly one place of exactly one
\* group, and the fill counts of the groups sum to the number of fills.
C27_GroupingIsPartition ==
  workbook.created =>
    /\ \A l \in FillLabels :
         Cardinality({g \in 1..Len(workbook.sheets) :
                        l \in GroupLabels(workbook.sheets[g])}) = 1
    /\ \A k \in 1..Len(allProcessed) :
         Cardinality(PlacesOf(allProcessed[k])) = 1
    /\ sum([g \in 1..Len(workbook.sheets) |-> Len(workbook.sheets[g].fills)])
         = Len(allProcessed)

\* C27 witness: three labels grouped into a binary group and a group of one
\* label.
C27_Witness ==
  /\ workbook.created
  /\ Cardinality(FillLabels) = 3
  /\ Len(workbook.sheets) = 2
  /\ \E g \in 1..2 : workbook.sheets[g].isBinary
  /\ \E g \in 1..2 : ~workbook.sheets[g].isBinary

\* C28 as stated: every binary group has a non-empty baseName, so two
\* outcome labels without a separator, whose base name is empty, are never
\* merged into a binary group.
C28_BinaryGroupNamed ==
  workbook.created =>
    \A g \in 1..Len(workbook.sheets) :
      workbook.sheets[g].isBinary =>
        /\ workbook.sheets[g].baseName # <<>>
        /\ \A l \in GroupLabels(workbook.sheets[g]) :
             Len(split(l, Separator)) > 1

CacheComplete ==
  \A tok \in DOMAIN fillsCache.token_fills :
    fillsCache.token_fills[tok] = feed[tok]

\* C30 as stated: degraded data is never persisted: the fills cache written
\* after a batch fetch holds, for every token, the complete fill list the
\* feed returns, so the empty list put in for a token whose fetch failed is
\* never in the cache file and never the list a later run loads from it.
C30_CacheHoldsCompleteFills ==
  /\ fillsCache.saved => CacheComplete
  /\ job.status # "none" /\ job.step = "loaded" =>
       \A tok \in DOMAIN tokenFills : tokenFills[tok] = feed[tok]

====
